---- MODULE Spec2Model ----
(***************************************************************************)
(* Model of the remote detection service:                                  *)
(*   - yolo_inference_server.py : the Flask handlers /health and /infer    *)
(*     and the normalisation of the model's boxes into detections;         *)
(*   - remote_inference_client.py : _join_url, _encode_multipart and       *)
(*     infer_image.                                                        *)
(*                                                                         *)
(* Conventions.  Python's None / an optional value is a sequence of        *)
(* length 0 or 1: None == <<>>, Some(v) == <<v>>.  Text and bytes are      *)
(* sequences of one-character strings.  Floating point values are held in  *)
(* tenths (0.9 is 9, 60.0 is 600); the values used are exactly            *)
(* representable, so float() and int() keep them.                          *)
(***************************************************************************)
EXTENDS Integers, Sequences, FiniteSets, TLC

VARIABLES
    model,        \* server global `model`: None or the loaded handle
    MODEL_ERROR,  \* server global `MODEL_ERROR`: None or the load error text
    lastReq,      \* the request the server handled last
    lastResults,  \* what model.predict returned for it (None when not called)
    lastResp,     \* the response the server gave to it
    prevStatus,   \* status of the /infer response before the last request (0: none)
    pc,           \* position of the client call / of the pure-function run
    args,         \* arguments of the running call
    locals,       \* local variables of the running call
    sent,         \* POSTs put on the wire by the running call
    outcome       \* how the call ended: a returned value or a raised exception

serverVars == <<model, MODEL_ERROR, lastReq, lastResults, lastResp, prevStatus>>
clientVars == <<pc, args, locals, sent, outcome>>
vars == <<model, MODEL_ERROR, lastReq, lastResults, lastResp, prevStatus,
          pc, args, locals, sent, outcome>>

---------------------------------------------------------------------------
(* Bounds of the model *)
MaxBoxes == 2       \* longest coordinate / confidence / class array
MaxStr == 3         \* longest URL base / endpoint
MaxKey == 2         \* longest extra-field name
MaxFields == 2      \* most extra fields in one call
MaxPath == 2        \* longest image path

---------------------------------------------------------------------------
(* Optional values and small helpers *)
None == <<>>
Some(v) == <<v>>
IsNone(o) == o = <<>>
Min(a, b) == IF a < b THEN a ELSE b

\* All sequences over S of length 0..n
SeqUpTo(S, n) == UNION {[1..k -> S] : k \in 0..n}

\* s[:n]
Prefix(s, n) == SubSeq(s, 1, Min(Len(s), n))

---------------------------------------------------------------------------
(* Server: startup (module level code) *)

\* The three ways the module-level code can end.
Startups ==
    { [model |-> Some("yolo"), MODEL_ERROR |-> None],
      [model |-> None, MODEL_ERROR |-> Some("ultralytics import failed")],
      [model |-> None, MODEL_ERROR |-> Some("model load failed")] }

MODEL_PATH == "best.pt"

---------------------------------------------------------------------------
(* Server: GET /health *)

HealthStatus(m) == IF ~IsNone(m) THEN "ok" ELSE "degraded"

HealthResponse(m, err) ==
    [status |-> 200,
     body |-> [status |-> HealthStatus(m),
               model |-> MODEL_PATH,
               model_ready |-> ~IsNone(m),
               detail |-> err]]

---------------------------------------------------------------------------
(* Server: the model's raw output (opaque predict) *)

\* Coordinates of a raw box, in pixels.
RawBoxes == { <<0, 0, 10, 10>>, <<5, 5, 20, 30>> }
RawConfs == { 9 }          \* 0.9, in tenths
RawClasses == { 2 }
Names == [c \in {0, 2} |-> IF c = 0 THEN "person" ELSE "car"]

\* result.boxes: None, or an object whose xyxy / conf / cls may each be None.
BoxObjects ==
    [xyxy : {None} \cup {Some(s) : s \in SeqUpTo(RawBoxes, MaxBoxes)},
     conf : {None} \cup {Some(s) : s \in SeqUpTo(RawConfs, MaxBoxes)},
     cls  : {None} \cup {Some(s) : s \in SeqUpTo(RawClasses, MaxBoxes)}]

\* model.predict(...): a list with zero results or one result.
ModelOutputs ==
    { <<>> } \cup
    { <<[boxes |-> b, names |-> Names]>> : b \in {None} \cup {Some(o) : o \in BoxObjects} }

\* np.zeros((n,), dtype=float)
Zeros(n) == [i \in 1..n |-> 0]

---------------------------------------------------------------------------
(* Server: normalisation of the first result into detections *)

ConfsMutant(boxes, n) == IF ~IsNone(boxes.conf) THEN boxes.conf[1] ELSE <<>>
Confs(boxes, n) == IF ~IsNone(boxes.conf) THEN boxes.conf[1] ELSE Zeros(n)

ClassIds(boxes, n) == IF ~IsNone(boxes.cls) THEN boxes.cls[1] ELSE Zeros(n)

NamesGet(names, class_id) ==
    IF class_id \in DOMAIN names THEN Some(names[class_id]) ELSE None

\* One pass of the loop body for the box at (1-based) position idx.
DetectionMutant(xyxy, confs, class_ids, names, idx) ==
    LET bbox == xyxy[Len(xyxy) + 1 - idx]
        class_id == IF idx <= Len(class_ids) THEN Some(class_ids[idx]) ELSE None
    IN  [x1 |-> bbox[1], y1 |-> bbox[2], x2 |-> bbox[3], y2 |-> bbox[4],
         class_id |-> class_id,
         class_name |-> IF ~IsNone(class_id) THEN NamesGet(names, class_id[1]) ELSE None,
         confidence |-> IF idx <= Len(confs) THEN Some(confs[idx]) ELSE None]
Detection(xyxy, confs, class_ids, names, idx) ==
    LET bbox == xyxy[idx]
        class_id == IF idx <= Len(class_ids) THEN Some(class_ids[idx]) ELSE None
    IN  [x1 |-> bbox[1], y1 |-> bbox[2], x2 |-> bbox[3], y2 |-> bbox[4],
         class_id |-> class_id,
         class_name |-> IF ~IsNone(class_id) THEN NamesGet(names, class_id[1]) ELSE None,
         confidence |-> IF idx <= Len(confs) THEN Some(confs[idx]) ELSE None]

Normalize(results) ==
    IF Len(results) > 0
    THEN LET r0 == results[1]
             boxes == r0.boxes
             names == r0.names
         IN  IF ~IsNone(boxes) /\ ~IsNone(boxes[1].xyxy)
             THEN LET xyxy == boxes[1].xyxy[1]
                      confs == Confs(boxes[1], Len(xyxy))
                      class_ids == ClassIds(boxes[1], Len(xyxy))
                  IN  [idx \in 1..Len(xyxy) |->
                          Detection(xyxy, confs, class_ids, names, idx)]
             ELSE <<>>
    ELSE <<>>

---------------------------------------------------------------------------
(* Server: POST /infer *)

\* Field names are texts: the name of the upload field and of another one.
ImageField == <<"image">>
MaskField == <<"mask">>

ImageBytes == SeqUpTo({"P", "x"}, 1)

\* Image.open(...).convert("RGB") succeeds on bytes that start an image
\* ("P" stands for a valid image signature) and raises on anything else.
Decodable(image_bytes) == Len(image_bytes) > 0 /\ image_bytes[1] = "P"

\* request.files of a POST: the file fields by name.
InferRequests ==
    { [path |-> "/infer", files |-> f] :
        f \in { g \in UNION { [d -> ImageBytes] : d \in SUBSET {ImageField, MaskField} } :
                   MaskField \notin DOMAIN g \/ g[MaskField] = <<"P">> } }

\* Whether `infer` reaches model.predict for this request.
ReachesPredict(m, request) ==
    /\ ~IsNone(m)
    /\ ImageField \in DOMAIN request.files
    /\ Decodable(request.files[ImageField])

InferResponseMutant(m, err, request, results) ==
    IF ~(ImageField \in DOMAIN request.files)
    THEN [status |-> 400, body |-> [error |-> "form-data field 'image' is required"]]
    ELSE IF IsNone(m)
    THEN [status |-> 503,
          body |-> [error |-> "YOLO model is not ready", detail |-> err,
                    detections |-> <<>>]]
    ELSE [status |-> 200, body |-> [detections |-> Normalize(results)]]
InferResponse(m, err, request, results) ==
    IF IsNone(m)
    THEN [status |-> 503,
          body |-> [error |-> "YOLO model is not ready", detail |-> err,
                    detections |-> <<>>]]
    ELSE IF ~(ImageField \in DOMAIN request.files)
    THEN [status |-> 400, body |-> [error |-> "form-data field 'image' is required"]]
    ELSE IF request.files[ImageField] = <<>>
    THEN [status |-> 400, body |-> [error |-> "image payload is empty"]]
    ELSE IF ~Decodable(request.files[ImageField])
    THEN [status |-> 400, body |-> [error |-> "invalid image file",
                                    detail |-> "cannot identify image file"]]
    ELSE [status |-> 200, body |-> [detections |-> Normalize(results)]]

\* The handlers hold no assignment to the globals `model` and MODEL_ERROR:
\* what each global is after a request, given what it was before.
GlobalAfterRequestMutant(g) == IF IsNone(g) THEN Some("yolo") ELSE None
GlobalAfterRequest(g) == g

IsInfer(req) == ~IsNone(req) /\ req[1].path = "/infer"
IsHealth(req) == ~IsNone(req) /\ req[1].path = "/health"
StatusOf(resp) == IF IsNone(resp) THEN 0 ELSE resp[1].status

\* GET /health
Health ==
    /\ lastReq' = Some([path |-> "/health", files |-> <<>>])
    /\ lastResults' = None
    /\ lastResp' = Some(HealthResponse(model, MODEL_ERROR))
    /\ prevStatus' = IF IsInfer(lastReq) THEN StatusOf(lastResp) ELSE prevStatus
    /\ model' = GlobalAfterRequest(model)
    /\ MODEL_ERROR' = GlobalAfterRequest(MODEL_ERROR)
    /\ UNCHANGED clientVars

\* POST /infer with any request; predict, when reached, returns any output.
Infer ==
    \E request \in InferRequests :
      \E r \in (IF ReachesPredict(model, request)
                THEN {Some(o) : o \in ModelOutputs} ELSE {None}) :
        /\ lastReq' = Some(request)
        /\ lastResults' = r
        /\ lastResp' = Some(InferResponse(model, MODEL_ERROR, request,
                                          IF IsNone(r) THEN <<>> ELSE r[1]))
        /\ prevStatus' = IF IsInfer(lastReq) THEN StatusOf(lastResp) ELSE prevStatus
        /\ model' = GlobalAfterRequest(model)
        /\ MODEL_ERROR' = GlobalAfterRequest(MODEL_ERROR)
        /\ UNCHANGED clientVars

ClientOff ==
    /\ pc = "off" /\ args = None /\ locals = None /\ sent = 0 /\ outcome = None

InitServer ==
    /\ \E s \in Startups : model = s.model /\ MODEL_ERROR = s.MODEL_ERROR
    /\ lastReq = None /\ lastResults = None /\ lastResp = None /\ prevStatus = 0
    /\ ClientOff

NextServer == Health \/ Infer

SpecServer == InitServer /\ [][NextServer]_vars

---------------------------------------------------------------------------
(* Client: multipart encoding (_encode_multipart)                          *)
(*                                                                         *)
(* A body is a sequence of atoms.  An atom is one data character or one    *)
(* of the literal fragments the encoder writes.  The double quote and the  *)
(* line break CRLF are the same atoms whether they come from a literal or  *)
(* from data (a key, a value, a file name, the image bytes).               *)

CRLF == "\r\n"
QUOTE == "\""
CD_NAME == "Content-Disposition: form-data; name="
FILENAME == "; filename="
CONTENT_TYPE == "Content-Type: "

\* uuid.uuid4().hex: the boundary differs per call and is independent of
\* the data, which therefore never holds a delimiter line.
Boundaries == { "----MIVBoundary0", "----MIVBoundary1" }

\* os.path.basename: what follows the last "/".
RECURSIVE Basename(_)
Basename(path) ==
    IF \E i \in 1..Len(path) : path[i] = "/"
    THEN Basename(Tail(path))
    ELSE path

\* mimetypes.guess_type(filename)[0] or "application/octet-stream": the
\* names used here carry no known extension.
GuessType(filename) == "application/octet-stream"

\* The chunks of one extra field.
FieldChunks(boundary, key, value) ==
    <<"--" \o boundary, CRLF>>
        \o <<CD_NAME, QUOTE>> \o key \o <<QUOTE, CRLF, CRLF>>
        \o value
        \o <<CRLF>>

RECURSIVE AllFieldChunks(_, _)
AllFieldChunks(boundary, fields) ==
    IF fields = <<>> THEN <<>>
    ELSE FieldChunks(boundary, Head(fields).key, Head(fields).value)
            \o AllFieldChunks(boundary, Tail(fields))

\* fields: the mapping's items in its order (None: no extra fields);
\* image_bytes: what open(image_path, "rb").read() returns.
EncodeMultipart(image_path, image_bytes, fields, boundary) ==
    LET filename == Basename(image_path)
        body == AllFieldChunks(boundary, IF IsNone(fields) THEN <<>> ELSE fields[1])
                  \o <<"--" \o boundary, CRLF>>
                  \o <<CD_NAME, QUOTE>> \o ImageField \o <<QUOTE, FILENAME, QUOTE>>
                  \o filename \o <<QUOTE, CRLF>>
                  \o <<CONTENT_TYPE, GuessType(filename), CRLF, CRLF>>
                  \o image_bytes
                  \o <<CRLF>>
                  \o <<"--" \o boundary, "--", CRLF>>
    IN  [body |-> body,
         content_type |-> [type |-> "multipart/form-data", boundary |-> boundary]]

---------------------------------------------------------------------------
(* Server: multipart decoding (request.files / request.form), as a         *)
(* standard parser does it: parts are what lies between delimiter lines;   *)
(* a part's headers end at the first empty line; name and filename are     *)
(* the quoted strings of its Content-Disposition line.                     *)

\* s split at every occurrence of the atom sep.
RECURSIVE SplitAt(_, _)
SplitAt(s, sep) ==
    IF \E i \in 1..Len(s) : s[i] = sep
    THEN LET i == CHOOSE k \in 1..Len(s) :
                      s[k] = sep /\ \A j \in 1..(k - 1) : s[j] # sep
         IN  <<SubSeq(s, 1, i - 1)>> \o SplitAt(SubSeq(s, i + 1, Len(s)), sep)
    ELSE <<s>>

\* Position of the first empty line (CRLF CRLF) of s, 0 when there is none.
BlankLineAt(s) ==
    IF \E i \in 1..(Len(s) - 1) : s[i] = CRLF /\ s[i + 1] = CRLF
    THEN CHOOSE i \in 1..(Len(s) - 1) :
            /\ s[i] = CRLF /\ s[i + 1] = CRLF
            /\ \A j \in 1..(i - 1) : ~(s[j] = CRLF /\ s[j + 1] = CRLF)
    ELSE 0

\* The quoted string that starts at s[1] = QUOTE: its text and what follows.
QuotedString(s) ==
    IF s # <<>> /\ s[1] = QUOTE /\ \E i \in 2..Len(s) : s[i] = QUOTE
    THEN LET close == CHOOSE i \in 2..Len(s) :
                          s[i] = QUOTE /\ \A j \in 2..(i - 1) : s[j] # QUOTE
         IN  [ok |-> TRUE, text |-> SubSeq(s, 2, close - 1),
              rest |-> SubSeq(s, close + 1, Len(s))]
    ELSE [ok |-> FALSE, text |-> <<>>, rest |-> <<>>]

MalformedPart == [name |-> <<"?">>, filename |-> None, content |-> <<>>, ok |-> FALSE]

\* One part: seg is what lies between two delimiter lines.
DecodePart(seg) ==
    IF Len(seg) < 2 \/ seg[1] # CRLF \/ seg[Len(seg)] # CRLF
    THEN MalformedPart
    ELSE LET part == SubSeq(seg, 2, Len(seg) - 1)
             blank == BlankLineAt(part)
         IN  IF blank = 0 \/ part = <<>> \/ part[1] # CD_NAME
             THEN MalformedPart
             ELSE LET disposition == Head(SplitAt(SubSeq(part, 1, blank - 1), CRLF))
                      name == QuotedString(Tail(disposition))
                      file == IF name.ok /\ name.rest # <<>> /\ name.rest[1] = FILENAME
                              THEN QuotedString(Tail(name.rest))
                              ELSE [ok |-> FALSE, text |-> <<>>, rest |-> <<>>]
                  IN  IF ~name.ok THEN MalformedPart
                      ELSE [name |-> name.text,
                            filename |-> IF file.ok THEN Some(file.text) ELSE None,
                            content |-> SubSeq(part, blank + 2, Len(part)),
                            ok |-> TRUE]

\* The parts of a body, in order, up to the terminating delimiter line.
DecodeMultipart(body, boundary) ==
    LET segs == SplitAt(body, "--" \o boundary)
        IsClose(seg) == seg # <<>> /\ seg[1] = "--"
        last == IF \E i \in 2..Len(segs) : IsClose(segs[i])
                THEN CHOOSE i \in 2..Len(segs) :
                        IsClose(segs[i]) /\ \A j \in 2..(i - 1) : ~IsClose(segs[j])
                ELSE Len(segs) + 1
    IN  [i \in 1..(last - 2) |-> DecodePart(segs[i + 1])]

\* request.files: the parts that carry a file name, by field name.
RequestFiles(parts) ==
    [n \in {parts[i].name : i \in {j \in 1..Len(parts) :
                                      parts[j].ok /\ ~IsNone(parts[j].filename)}} |->
        LET i == CHOOSE j \in 1..Len(parts) :
                    /\ parts[j].ok /\ ~IsNone(parts[j].filename) /\ parts[j].name = n
                    /\ \A k \in 1..(j - 1) :
                          ~(parts[k].ok /\ ~IsNone(parts[k].filename) /\ parts[k].name = n)
        IN  parts[i].content]

---------------------------------------------------------------------------
(* Encoding runs: _encode_multipart on its own *)

KeyChars == {"k", QUOTE, CRLF}
ValueChars == {"v", CRLF}
PathChars == {"f", "/", QUOTE}
ByteChars == {"x", CRLF}

FieldKeys == SeqUpTo(KeyChars, MaxKey)
FieldValues == SeqUpTo(ValueChars, 1) \ {<<>>}
FieldItems == [key : FieldKeys, value : FieldValues]

\* A dict's items: at most MaxFields of them, the keys distinct.
FieldMappings ==
    { fs \in SeqUpTo(FieldItems, MaxFields) :
        \A i, j \in 1..Len(fs) : i # j => fs[i].key # fs[j].key }

\* Paths of regular files: not empty, not ending in "/".
ImagePaths == { p \in SeqUpTo(PathChars, MaxPath) : p # <<>> /\ p[Len(p)] # "/" }
FileContents == SeqUpTo(ByteChars, 1)

ServerOff ==
    /\ model = None /\ MODEL_ERROR = None
    /\ lastReq = None /\ lastResults = None /\ lastResp = None /\ prevStatus = 0

InitMultipart ==
    /\ ServerOff
    /\ pc = "encode"
    /\ \E p \in ImagePaths, c \in FileContents,
          f \in {None} \cup {Some(fs) : fs \in FieldMappings} :
          args = Some([image_path |-> p, image_bytes |-> c, fields |-> f])
    /\ locals = None /\ sent = 0 /\ outcome = None

\* One call of _encode_multipart.
Encode ==
    /\ pc = "encode"
    /\ \E b \in Boundaries :
          /\ locals' = Some([boundary |-> b])
          /\ outcome' = Some(EncodeMultipart(args[1].image_path, args[1].image_bytes,
                                             args[1].fields, b))
    /\ pc' = "encoded"
    /\ UNCHANGED <<args, sent>>
    /\ UNCHANGED serverVars

NextMultipart == Encode

SpecMultipart == InitMultipart /\ [][NextMultipart]_vars

\* The parts the claim expects for the arguments of the call.
ExpectedParts ==
    LET fs == IF IsNone(args[1].fields) THEN <<>> ELSE args[1].fields[1]
    IN  [i \in 1..(Len(fs) + 1) |->
            IF i <= Len(fs)
            THEN [name |-> fs[i].key, filename |-> None, content |-> fs[i].value,
                  ok |-> TRUE]
            ELSE [name |-> ImageField, filename |-> Some(Basename(args[1].image_path)),
                  content |-> args[1].image_bytes, ok |-> TRUE]]

\* C6: for every mapping of extra fields and every readable image file,
\* decoding the encoded body with the boundary of the returned Content-Type
\* yields exactly one part per extra field (its key, its value, in the
\* mapping's order) followed by one part named image with the file's bytes
\* and its base name, and nothing else.
C6_MultipartRoundTrip ==
    pc = "encoded" =>
        DecodeMultipart(outcome[1].body, outcome[1].content_type.boundary)
            = ExpectedParts

\* The same round trip for calls whose keys and file name hold neither a
\* double quote nor a line break.
C6_PlainNamesRoundTrip ==
    (/\ pc = "encoded"
     /\ \A i \in 1..Len(ExpectedParts) :
           LET p == ExpectedParts[i]
               n == p.name \o (IF IsNone(p.filename) THEN <<>> ELSE p.filename[1])
           IN  \A k \in 1..Len(n) : n[k] \notin {QUOTE, CRLF})
    => DecodeMultipart(outcome[1].body, outcome[1].content_type.boundary)
            = ExpectedParts

---------------------------------------------------------------------------
(* Client: how a call ends *)

Return(v) == [kind |-> "return", value |-> v, exc |-> "", msg |-> <<>>]
Raise(e, m) == [kind |-> "raise", value |-> <<>>, exc |-> e, msg |-> m]

---------------------------------------------------------------------------
(* Client: _join_url *)

StartsWithSlash(s) == s # <<>> /\ s[1] = "/"
EndsWithSlash(s) == s # <<>> /\ s[Len(s)] = "/"

JoinUrlMutant(server_url, endpoint) ==
    IF server_url = <<>>
    THEN Raise("RemoteInferenceError", <<"Server URL cannot be empty.">>)
    ELSE LET e == IF IsNone(endpoint) THEN <<>> ELSE endpoint[1]
         IN  IF e = <<>> THEN Return(server_url)
             ELSE IF ~EndsWithSlash(server_url) /\ ~StartsWithSlash(e)
             THEN Return(server_url \o <<"/">> \o e)
             ELSE Return(server_url \o e)
\* endpoint is optional: `endpoint or ""` turns None into the empty string.
JoinUrl(server_url, endpoint) ==
    IF server_url = <<>>
    THEN Raise("RemoteInferenceError", <<"Server URL cannot be empty.">>)
    ELSE LET e == IF IsNone(endpoint) THEN <<>> ELSE endpoint[1]
         IN  IF e = <<>> THEN Return(server_url)
             ELSE IF EndsWithSlash(server_url) /\ StartsWithSlash(e)
             THEN Return(SubSeq(server_url, 1, Len(server_url) - 1) \o e)
             ELSE IF ~EndsWithSlash(server_url) /\ ~StartsWithSlash(e)
             THEN Return(server_url \o <<"/">> \o e)
             ELSE Return(server_url \o e)

---------------------------------------------------------------------------
(* Joining runs: _join_url on its own *)

UrlChars == {"h", "/"}
UrlStrings == SeqUpTo(UrlChars, MaxStr)
\* A server URL is empty or starts with its scheme and host.
ServerUrls == {<<>>} \cup {s \in UrlStrings : s # <<>> /\ s[1] = "h"}

InitJoin ==
    /\ ServerOff
    /\ pc = "join"
    /\ \E s \in ServerUrls, e \in {None} \cup {Some(x) : x \in UrlStrings} :
          args = Some([server_url |-> s, endpoint |-> e])
    /\ locals = None /\ sent = 0 /\ outcome = None

\* One call of _join_url.
Join ==
    /\ pc = "join"
    /\ outcome' = Some(JoinUrl(args[1].server_url, args[1].endpoint))
    /\ pc' = "joined"
    /\ UNCHANGED <<args, locals, sent>>
    /\ UNCHANGED serverVars

NextJoin == Join

SpecJoin == InitJoin /\ [][NextJoin]_vars

RECURSIVE RStripSlashes(_)
RStripSlashes(s) ==
    IF EndsWithSlash(s) THEN RStripSlashes(SubSeq(s, 1, Len(s) - 1)) ELSE s
RECURSIVE LStripSlashes(_)
LStripSlashes(s) == IF StartsWithSlash(s) THEN LStripSlashes(Tail(s)) ELSE s
DropOneTrailingSlash(s) == IF EndsWithSlash(s) THEN SubSeq(s, 1, Len(s) - 1) ELSE s
DropOneLeadingSlash(s) == IF StartsWithSlash(s) THEN Tail(s) ELSE s

JoinedEndpoint == IF IsNone(args[1].endpoint) THEN <<>> ELSE args[1].endpoint[1]

\* C4 as stated: for every non-empty base and every endpoint, an empty
\* endpoint gives the base verbatim and otherwise exactly one "/" stands
\* between what the base holds before its trailing slashes and what the
\* endpoint holds after its leading slashes.
C4_ExactlyOneSlash ==
    (pc = "joined" /\ args[1].server_url # <<>>) =>
        /\ outcome[1].kind = "return"
        /\ IF JoinedEndpoint = <<>>
           THEN outcome[1].value = args[1].server_url
           ELSE outcome[1].value =
                    RStripSlashes(args[1].server_url) \o <<"/">>
                        \o LStripSlashes(JoinedEndpoint)

\* C4 amended: an empty endpoint gives the base verbatim; otherwise the
\* result is the base without one trailing "/" (if it has one), one "/",
\* and the endpoint without one leading "/" (if it has one).  So exactly
\* one "/" separates them whenever the base ends in at most one "/" and the
\* endpoint starts with at most one "/".
C4_JoinDropsOneSlashEach ==
    (pc = "joined" /\ args[1].server_url # <<>>) =>
        /\ outcome[1].kind = "return"
        /\ IF JoinedEndpoint = <<>>
           THEN outcome[1].value = args[1].server_url
           ELSE /\ outcome[1].value =
                      DropOneTrailingSlash(args[1].server_url) \o <<"/">>
                          \o DropOneLeadingSlash(JoinedEndpoint)
                /\ (/\ ~EndsWithSlash(DropOneTrailingSlash(args[1].server_url))
                    /\ ~StartsWithSlash(DropOneLeadingSlash(JoinedEndpoint)))
                   => outcome[1].value =
                          RStripSlashes(args[1].server_url) \o <<"/">>
                              \o LStripSlashes(JoinedEndpoint)

\* join("h/", "/h") = "h/h": a slash on both sides, one slash in the result.
C4_Witness ==
    /\ pc = "joined"
    /\ args[1].server_url = <<"h", "/">>
    /\ args[1].endpoint = Some(<<"/", "h">>)
    /\ outcome[1] = Return(<<"h", "/", "h">>)

---------------------------------------------------------------------------
(* Client: infer_image, against the server and the network *)

DefaultTimeout == 600      \* 60.0 seconds, in tenths
HttpDetailLimit == 400     \* characters of an error body kept in a message
JsonSnippetLimit == 200    \* characters of a non-JSON body kept in a message

\* timeout_seconds: None or a number (in tenths of a second).
NormalizeTimeoutMutant(t) == IF ~IsNone(t) /\ t[1] # 0 THEN t[1] ELSE DefaultTimeout
NormalizeTimeout(t) ==
    LET given == IF ~IsNone(t) /\ t[1] # 0 THEN t[1] ELSE DefaultTimeout
    IN  IF given <= 0 THEN DefaultTimeout ELSE given

\* The local file system: what each path is, and what a file holds.
FileKind(path) ==
    IF path \in {<<"f">>, <<"g">>, <<"e">>} THEN "file"
    ELSE IF path = <<"d">> THEN "dir"
    ELSE "missing"
FileBytes(path) ==
    IF path = <<"f">> THEN <<"P">> ELSE IF path = <<"g">> THEN <<"x">> ELSE <<>>

\* Python's exception classes: each with its base class.
BaseClass(c) ==
    CASE c = "HTTPError" -> "URLError"
      [] c = "URLError" -> "OSError"
      [] c = "TimeoutError" -> "OSError"
      [] c = "RemoteDisconnected" -> "ConnectionResetError"
      [] c = "ConnectionResetError" -> "ConnectionError"
      [] c = "ConnectionError" -> "OSError"
      [] c = "IsADirectoryError" -> "OSError"
      [] c = "OSError" -> "Exception"
      [] c = "RemoteInferenceError" -> "RuntimeError"
      [] c = "RuntimeError" -> "Exception"
      [] OTHER -> "BaseException"

RECURSIVE IsInstance(_, _)
IsInstance(c, cls) ==
    IF c = cls THEN TRUE
    ELSE IF c = "BaseException" THEN FALSE
    ELSE IsInstance(BaseClass(c), cls)

\* What the network can do to one POST.  A response carries its status and
\* its raw body; the server's bodies are JSON texts (one atom holding the
\* serialised object), a foreign answer (a proxy, a wrong route) is not.
JsonBody(v) == [valid_json |-> TRUE, text |-> <<v>>]
HtmlBody == [valid_json |-> FALSE, text |-> <<"<html>", "</html>">>]
NetFailures == {"refused", "connect_timeout", "read_timeout", "reset", "disconnected"}

\* request.urlopen(req, timeout=...): a response below 400 is returned, a
\* response from 400 on is raised as HTTPError; a failure while connecting
\* or sending is wrapped in URLError, one while waiting for or reading the
\* response is raised as it is.
Urlopen(net) ==
    IF net.kind = "response"
    THEN IF net.status >= 400
         THEN [raised |-> TRUE, exc |-> "HTTPError", status |-> net.status, raw |-> net.raw]
         ELSE [raised |-> FALSE, exc |-> "", status |-> net.status, raw |-> net.raw]
    ELSE [raised |-> TRUE,
          exc |-> CASE net.what = "refused" -> "URLError"
                    [] net.what = "connect_timeout" -> "URLError"
                    [] net.what = "read_timeout" -> "TimeoutError"
                    [] net.what = "reset" -> "ConnectionResetError"
                    [] net.what = "disconnected" -> "RemoteDisconnected",
          status |-> 0, raw |-> [valid_json |-> FALSE, text |-> <<>>]]

HttpErrorOutcome(code, raw) ==
    Raise("RemoteInferenceError",
          <<"HTTPError", code>> \o Prefix(raw.text, HttpDetailLimit))

\* The try block around urlopen and its except clauses.
HandleUrlopen(r) ==
    IF ~r.raised
    THEN IF r.status >= 400
         THEN Raise("RemoteInferenceError",
                    <<"HTTP", r.status>> \o Prefix(r.raw.text, HttpDetailLimit))
         ELSE IF r.raw.valid_json
         THEN Return(r.raw.text[1])
         ELSE Raise("RemoteInferenceError",
                    <<"Server did not return valid JSON">>
                        \o Prefix(r.raw.text, JsonSnippetLimit))
    ELSE IF IsInstance(r.exc, "HTTPError") THEN HttpErrorOutcome(r.status, r.raw)
    ELSE IF IsInstance(r.exc, "URLError")
    THEN Raise("RemoteInferenceError", <<"Server connection error">>)
    ELSE IF IsInstance(r.exc, "TimeoutError")
    THEN Raise("RemoteInferenceError", <<"Server response timed out.">>)
    ELSE Raise(r.exc, <<>>)

\* The arguments of a call.
CallPaths == {<<>>, <<"m">>, <<"d">>, <<"f">>, <<"g">>, <<"e">>}
CallUrls == {<<>>, <<"h">>, <<"h", "/">>}
CallEndpoints == {None, Some(<<>>), Some(<<"/", "i">>), Some(<<"i">>)}
CallTimeouts == {None, Some(0), Some(-10), Some(5), Some(50)}
CallFields == {None, Some(<<[key |-> <<"k">>, value |-> <<"v">>]>>)}
InferUrl == <<"h", "/", "i">>      \* where the server's /infer route is

InitClient ==
    /\ \E s \in Startups : model = s.model /\ MODEL_ERROR = s.MODEL_ERROR
    /\ lastReq = None /\ lastResults = None /\ lastResp = None /\ prevStatus = 0
    /\ pc = "call"
    /\ \E p \in CallPaths, u \in CallUrls, e \in CallEndpoints,
          t \in CallTimeouts, f \in CallFields :
          args = Some([image_path |-> p, server_url |-> u, endpoint |-> e,
                       timeout_seconds |-> t, extra_fields |-> f])
    /\ locals = None /\ sent = 0 /\ outcome = None

NoNet == [kind |-> "none", what |-> "", status |-> 0,
          raw |-> [valid_json |-> FALSE, text |-> <<>>]]
NetResponse(status, raw) == [kind |-> "response", what |-> "", status |-> status, raw |-> raw]
NetFailure(what) == [kind |-> "failure", what |-> what, status |-> 0,
                     raw |-> [valid_json |-> FALSE, text |-> <<>>]]

\* infer_image from its first line to the call of urlopen.
Call ==
    /\ pc = "call"
    /\ LET a == args[1]
           joined == JoinUrl(a.server_url, a.endpoint)
       IN  IF a.image_path = <<>> \/ FileKind(a.image_path) = "missing"
           THEN /\ outcome' = Some(Raise("RemoteInferenceError",
                                         <<"Image file not found">> \o a.image_path))
                /\ pc' = "done"
                /\ UNCHANGED <<locals, sent>>
           ELSE IF joined.kind = "raise"
           THEN /\ outcome' = Some(joined)
                /\ pc' = "done"
                /\ UNCHANGED <<locals, sent>>
           ELSE IF FileKind(a.image_path) = "dir"
           THEN /\ outcome' = Some(Raise("IsADirectoryError", <<>>))
                /\ pc' = "done"
                /\ UNCHANGED <<locals, sent>>
           ELSE \E b \in Boundaries :
                  LET enc == EncodeMultipart(a.image_path, FileBytes(a.image_path),
                                             a.extra_fields, b)
                  IN  /\ locals' = Some([timeout |-> NormalizeTimeout(a.timeout_seconds),
                                         url |-> joined.value,
                                         body |-> enc.body,
                                         content_type |-> enc.content_type,
                                         net |-> NoNet])
                      /\ sent' = sent + 1
                      /\ pc' = "sent"
                      /\ UNCHANGED outcome
    /\ UNCHANGED args
    /\ UNCHANGED serverVars

\* The server receives the POST and answers it: /infer on its route, 404
\* from the framework anywhere else.
Serve ==
    /\ pc = "sent"
    /\ LET l == locals[1]
           request == [path |-> "/infer",
                       files |-> RequestFiles(DecodeMultipart(l.body,
                                                 l.content_type.boundary))]
       IN  IF l.url = InferUrl
           THEN \E r \in (IF ReachesPredict(model, request)
                          THEN {Some(o) : o \in ModelOutputs} ELSE {None}) :
                  LET resp == InferResponse(model, MODEL_ERROR, request,
                                            IF IsNone(r) THEN <<>> ELSE r[1])
                  IN  /\ lastReq' = Some(request)
                      /\ lastResults' = r
                      /\ lastResp' = Some(resp)
                      /\ locals' = Some([l EXCEPT !.net =
                                            NetResponse(resp.status, JsonBody(resp.body))])
           ELSE /\ locals' = Some([l EXCEPT !.net = NetResponse(404, HtmlBody)])
                /\ UNCHANGED <<lastReq, lastResults, lastResp>>
    /\ prevStatus' = IF IsInfer(lastReq) THEN StatusOf(lastResp) ELSE prevStatus
    /\ model' = GlobalAfterRequest(model)
    /\ MODEL_ERROR' = GlobalAfterRequest(MODEL_ERROR)
    /\ pc' = "served"
    /\ UNCHANGED <<args, sent, outcome>>

\* Something other than the server answers with a page that is not JSON.
ForeignAnswer ==
    /\ pc = "sent"
    /\ \E status \in {200, 502} :
          locals' = Some([locals[1] EXCEPT !.net = NetResponse(status, HtmlBody)])
    /\ pc' = "served"
    /\ UNCHANGED <<args, sent, outcome>>
    /\ UNCHANGED serverVars

\* The network fails: before the request is out (refused, timeout while
\* connecting) or while the client waits for and reads the response.
NetworkFails ==
    /\ \/ pc = "sent" /\ \E w \in NetFailures :
              locals' = Some([locals[1] EXCEPT !.net = NetFailure(w)])
       \/ pc = "served" /\ \E w \in {"read_timeout", "reset", "disconnected"} :
              locals' = Some([locals[1] EXCEPT !.net = NetFailure(w)])
    /\ pc' = "failed"
    /\ UNCHANGED <<args, sent, outcome>>
    /\ UNCHANGED serverVars

\* Where infer_image goes once urlopen has come back: it returns or raises,
\* whatever happened; nothing loops back to urlopen.
AfterUrlopenMutant(result) == IF result.kind = "raise" THEN "call" ELSE "done"
AfterUrlopen(result) == "done"

\* urlopen comes back (a response or an exception) and infer_image ends.
Finish ==
    /\ pc \in {"served", "failed"}
    /\ outcome' = Some(HandleUrlopen(Urlopen(locals[1].net)))
    /\ pc' = AfterUrlopen(HandleUrlopen(Urlopen(locals[1].net)))
    /\ UNCHANGED <<args, locals, sent>>
    /\ UNCHANGED serverVars

Next == Call \/ Serve \/ ForeignAnswer \/ NetworkFails \/ Finish

Spec == InitClient /\ [][Next]_vars

---------------------------------------------------------------------------
(* Claims about infer_image, checked under Spec *)

\* Why a call failed, for the failures the error contract lists.
FailedByListedCause ==
    /\ pc = "done" /\ outcome[1].kind = "raise"
    /\ \/ args[1].image_path = <<>> \/ FileKind(args[1].image_path) = "missing"
       \/ args[1].server_url = <<>>
       \/ /\ ~IsNone(locals)
          /\ \/ locals[1].net.kind = "failure"
             \/ locals[1].net.kind = "response" /\ locals[1].net.status >= 400
             \/ /\ locals[1].net.kind = "response" /\ locals[1].net.status < 400
                /\ ~locals[1].net.raw.valid_json

\* C3: a call that fails for an empty server URL, a missing image file, an
\* HTTP status >= 400, a non-JSON success body, a connection failure or a
\* timeout (while connecting or while reading) raises RemoteInferenceError
\* and nothing else, and returns no value.
C3_SingleErrorKind ==
    FailedByListedCause => outcome[1].exc = "RemoteInferenceError"

\* The same, with the connection failures limited to those that happen
\* before the request is out.
C3_ExceptAfterSend ==
    (FailedByListedCause
        /\ ~(~IsNone(locals) /\ locals[1].net.kind = "failure"
                /\ locals[1].net.what \in {"reset", "disconnected"}))
    => outcome[1].exc = "RemoteInferenceError"

C7_OneRequestNoRetry ==
    /\ sent <= 1
    /\ pc = "done" => outcome[1].kind \in {"return", "raise"}
    /\ (pc = "done" /\ outcome[1].kind = "return") =>
          /\ sent = 1
          /\ locals[1].net.kind = "response" /\ locals[1].net.raw.valid_json
          /\ outcome[1].value = locals[1].net.raw.text[1]
    /\ (/\ pc = "done" /\ IsNone(model) /\ ~IsNone(locals)
        /\ locals[1].net.kind = "response" /\ locals[1].net.status = 503) =>
          /\ sent = 1
          /\ outcome[1].kind = "raise"
          /\ outcome[1].exc = "RemoteInferenceError"
          /\ outcome[1].msg = <<"HTTPError", 503, lastResp[1].body>>

\* A valid image was posted to a server that is not ready and the call
\* ended in the error that carries the 503 body.
C7_Witness ==
    /\ pc = "done" /\ IsNone(model) /\ sent = 1
    /\ args[1].image_path = <<"f">>
    /\ StatusOf(lastResp) = 503
    /\ outcome[1].exc = "RemoteInferenceError"
    /\ outcome[1].msg = <<"HTTPError", 503, lastResp[1].body>>

---------------------------------------------------------------------------
(* Claims about the server, checked under SpecServer *)

GlobalsUnchanged == model' = model /\ MODEL_ERROR' = MODEL_ERROR

\* The fixed precedence of POST /infer, read off the last exchange.
InferPrecedenceHolds ==
    IsInfer(lastReq) =>
        LET files == lastReq[1].files
            resp == lastResp[1]
            ready == ~IsNone(model)
            hasImage == ImageField \in DOMAIN files
        IN  /\ ~ready =>
                  /\ resp.status = 503
                  /\ DOMAIN resp.body = {"error", "detail", "detections"}
                  /\ resp.body.detail = MODEL_ERROR
                  /\ resp.body.detections = <<>>
            /\ (ready /\ ~hasImage) =>
                  /\ resp.status = 400
                  /\ resp.body.error = "form-data field 'image' is required"
            /\ (ready /\ hasImage /\ Len(files[ImageField]) = 0) =>
                  /\ resp.status = 400
                  /\ resp.body.error = "image payload is empty"
            /\ (ready /\ hasImage /\ Len(files[ImageField]) > 0
                      /\ ~Decodable(files[ImageField])) =>
                  /\ resp.status = 400
                  /\ resp.body.error = "invalid image file"
            /\ (ready /\ hasImage /\ Decodable(files[ImageField])) =>
                  /\ resp.status = 200
                  /\ DOMAIN resp.body = {"detections"}

\* C1: every POST /infer response follows the precedence 503 (model not
\* loaded, whatever the request carries), 400 missing field, 400 empty
\* payload, 400 undecodable image, else 200 with a detections list; and no
\* request, failed or not, changes the process-wide state the next response
\* depends on.
C1_InferPrecedence == []InferPrecedenceHolds /\ [][GlobalsUnchanged]_vars

\* A valid request answered 200 right after a request that ended in 400.
C1_Witness ==
    /\ IsInfer(lastReq) /\ StatusOf(lastResp) = 200 /\ prevStatus = 400

DegradedHolds ==
    /\ IsNone(model)
    /\ ~IsNone(MODEL_ERROR)
    /\ IsInfer(lastReq) => lastResp[1].status = 503
    /\ IsHealth(lastReq) =>
          /\ lastResp[1].status = 200
          /\ lastResp[1].body.status = "degraded"
          /\ lastResp[1].body.model_ready = FALSE
          /\ lastResp[1].body.detail = MODEL_ERROR

\* C2: when the model load failed at startup, in every state reached by any
\* sequence of /health and /infer requests readiness stays false, every
\* /infer is answered 503 and every /health 200 "degraded" with
\* model_ready false and the load error as detail; no handler changes the
\* readiness state.
C2_DegradedForever ==
    (IsNone(model) => []DegradedHolds) /\ [][GlobalsUnchanged]_vars

\* A degraded server that answered /health after having answered /infer 503.
C2_Witness ==
    /\ IsNone(model) /\ IsHealth(lastReq) /\ prevStatus = 503
    /\ lastResp[1].body.detail = Some("model load failed")

\* The coordinate array of the first result, when the model supplied one.
HasXyxy(results) ==
    /\ Len(results) > 0
    /\ ~IsNone(results[1].boxes)
    /\ ~IsNone(results[1].boxes[1].xyxy)

Is200Infer == IsInfer(lastReq) /\ StatusOf(lastResp) = 200
LastDetections == lastResp[1].body.detections
LastBoxes == lastResults[1][1].boxes[1]

\* C8: on a 200 response the detections are the boxes of the first result's
\* coordinate array one for one and in order (same count, i-th detection
\* has the i-th box's x1,y1,x2,y2); with zero results, no boxes or no
\* coordinate array the list is empty and the response is still 200.
C8_BoxesOneForOne ==
    (IsInfer(lastReq) /\ ~IsNone(lastResults)) =>
        /\ StatusOf(lastResp) = 200
        /\ IF HasXyxy(lastResults[1])
           THEN LET xyxy == LastBoxes.xyxy[1]
                IN  /\ Len(LastDetections) = Len(xyxy)
                    /\ \A i \in 1..Len(xyxy) :
                          LET d == LastDetections[i]
                          IN  <<d.x1, d.y1, d.x2, d.y2>> = xyxy[i]
           ELSE LastDetections = <<>>

\* Two different boxes came back as two detections.
C8_Witness ==
    /\ Is200Infer /\ HasXyxy(lastResults[1])
    /\ Len(LastDetections) = 2
    /\ LastBoxes.xyxy[1][1] # LastBoxes.xyxy[1][2]

\* C9: in every detection class_id is present iff the model supplied a
\* class-id array that has an entry at the detection's index; with no
\* class-id array, class_id and class_name are absent for every detection.
C9_ClassIdPresentIffSupplied ==
    (Is200Infer /\ HasXyxy(lastResults[1])) =>
        \A i \in 1..Len(LastDetections) :
            /\ ~IsNone(LastDetections[i].class_id)
                  <=> (~IsNone(LastBoxes.cls) /\ i <= Len(LastBoxes.cls[1]))
            /\ IsNone(LastBoxes.cls) => IsNone(LastDetections[i].class_name)

\* C10: with boxes but no confidence array every detection reports
\* confidence 0.0; confidence is absent only where a supplied confidence
\* array is too short for the detection's index.
C10_ConfidenceZeroWhenNoArray ==
    (Is200Infer /\ HasXyxy(lastResults[1])) =>
        \A i \in 1..Len(LastDetections) :
            /\ IsNone(LastBoxes.conf) => LastDetections[i].confidence = Some(0)
            /\ IsNone(LastDetections[i].confidence)
                  <=> (~IsNone(LastBoxes.conf) /\ Len(LastBoxes.conf[1]) < i)

\* Boxes without a confidence array, and a detection reporting 0.0.
C10_Witness ==
    /\ Is200Infer /\ HasXyxy(lastResults[1])
    /\ IsNone(LastBoxes.conf)
    /\ Len(LastDetections) >= 1
    /\ LastDetections[1].confidence = Some(0)

====
